---- MODULE Spec2Model ----
(***************************************************************************)
(* dataone-indexer: the dispatch loop of main.go (processMessages) that    *)
(* takes AMQP deliveries, decodes them, keeps those whose path lies under  *)
(* the configured repository root and hands them to the recorder.          *)
(*                                                                         *)
(* Strings and byte slices are sequences of symbols (a symbol is a TLA+    *)
(* string), so that prefix tests, formatting and parsing are computed and  *)
(* not assumed.                                                            *)
(***************************************************************************)
EXTENDS Integers, Sequences, FiniteSets, TLC

VARIABLES
    rootDir,      \* svc.rootDir, dataone.repository-root
    decodeRep,    \* what model.Decode returns beside a non-nil error
    messages,     \* svc.messages: deliveries in flight on the consumer channel
    closed,       \* the consumer channel has been closed by the AMQP client
    published,    \* history: every delivery the bus has put on the channel
    pc,           \* position of the processMessages goroutine
    delivery,     \* loop variable `delivery`
    key,          \* local `key`
    msg,          \* local `msg`
    err,          \* local `err` of line 170
    calls,        \* history: RecordEvent invocations, in order
    rows,         \* the event table: rows persisted by the recorder
    logs,         \* history: lines written through logger.Log.Errorf
    inspected,    \* history: deliveries whose msg.Path was read at line 174
    scoped,       \* history: the scope tests evaluated at line 174
    failed,       \* history: deliveries whose RecordEvent returned an error
    completed,    \* history: deliveries whose loop iteration has ended
    mainPc,       \* position of the main goroutine
    unacked,      \* deliveries the broker still holds, awaiting an ack
    hung          \* history: deliveries whose RecordEvent call never returns

vars == <<rootDir, decodeRep, messages, closed, published, pc, delivery,
          key, msg, err, calls, rows, logs, inspected, scoped, failed,
          completed, mainPc, unacked, hung>>

-----------------------------------------------------------------------------
(* Bounds *)

MaxDeliveries == 2
MaxQueue == 2

-----------------------------------------------------------------------------
(* Strings *)

EmptyStr == <<>>

\* strings.Index(s, sep): index (from 0) of the first instance of sep in s,
\* -1 when sep is not present; 0 for the empty sep.
Index(s, sep) ==
    LET hits == { i \in 0..(Len(s) - Len(sep)) :
                    SubSeq(s, i + 1, i + Len(sep)) = sep }
    IN  IF hits = {} THEN -1
        ELSE CHOOSE i \in hits : \A j \in hits : i <= j

\* Configuration values (defaultConfig and the roots under study).
RootAB == <<"/", "a", "/", "b">>
Roots == { EmptyStr, RootAB }

ReadKey == <<"data-object.open">>
Keys == { ReadKey, <<"data-object.mod">>, EmptyStr }

NodeId == "foo"

\* Subject paths carried by the payloads.
Paths == { EmptyStr,
           <<"/", "a", "/", "b", "/", "c">>,
           <<"/", "a", "/", "b", "c">>,
           <<"/", "a", "/", "x">>,
           <<"/", "A", "/", "b", "/", "c">>,
           <<"x", "/", "a", "/", "b">> }

\* A well-formed payload: the serialized record holding the path.
Encode(path) == <<"{">> \o path \o <<"}">>

\* Payloads that are not in the serialization format: a truncated record,
\* and bytes that are no record at all.
Malformed == { <<"{", "/", "a", "/", "b", "/", "c">>, <<"#">> }

Bodies == { Encode(p) : p \in Paths } \cup Malformed

\* The deliveries the bus sends: every payload under the read key, and under
\* each other key one well-formed and one malformed payload.
Deliveries ==
    { [RoutingKey |-> ReadKey, Body |-> b] : b \in Bodies } \cup
    { [RoutingKey |-> k, Body |-> b] :
        k \in Keys \ {ReadKey},
        b \in { Encode(<<"/", "a", "/", "b", "/", "c">>), <<"#">> } }

-----------------------------------------------------------------------------
(* model.Message and model.Decode *)

NilErr == "nil"
DecodeError == "DecodeError"
RecordError == "RecordError"

Event(path) == [isNil |-> FALSE, Path |-> path]
NilEvent == [isNil |-> TRUE, Path |-> EmptyStr]
ZeroEvent == Event(EmptyStr)

\* The representations a failed Decode can hand back beside its error: a
\* nil *Message or a zero-valued Message; never a partial one.
DecodeReps == { "nil", "zero" }

WellFormed(body) ==
    /\ Len(body) >= 2
    /\ body[1] = "{"
    /\ body[Len(body)] = "}"
    /\ \A i \in 2..(Len(body) - 1) : body[i] \notin { "{", "}" }

FailedEvent(rep) == IF rep = "nil" THEN NilEvent ELSE ZeroEvent

Decode(body, rep) ==
    IF WellFormed(body)
    THEN [msg |-> Event(SubSeq(body, 2, Len(body) - 1)), err |-> NilErr]
    ELSE [msg |-> FailedEvent(rep), err |-> DecodeError]

-----------------------------------------------------------------------------
(* database.Recorder *)

\* Variant that reads the subscription key in place of the read key.
getRoutingKeysSubscription == [Read |-> <<"data-object.*">>]

\* getRoutingKeys: the one routing key the recorder treats as a read.
getRoutingKeys == [Read |-> ReadKey]

Classify(k) == IF k = getRoutingKeys.Read THEN "Read" ELSE "Generic"

Row(n, k, m) == [n |-> n, kind |-> Classify(k), path |-> m.Path, node |-> NodeId]

\* RecordEvent's durable write: one row per successful call, no de-duplication.
RecordEventWrite(table, n, k, m) == Append(table, Row(n, k, m))

-----------------------------------------------------------------------------
(* processMessages *)

\* Variants of the scope test: the root found anywhere in the path, the root
\* matched on whole path segments only, and no test at all.
InScopeContains(path, root) == Index(path, root) >= 0

InScopeSegment(path, root) ==
    /\ Index(path, root) = 0
    /\ \/ root = EmptyStr
       \/ Len(path) = Len(root)
       \/ path[Len(root) + 1] = "/"

InScopeAlways(path, root) == TRUE

\* line 174: strings.Index(msg.Path, svc.rootDir) == 0
InScope(path, root) == Index(path, root) = 0

\* Variant of the decode-failure line that leaves the payload out.
ParseLogLineNoBody(body, e) == <<"Unable to parse message: ">> \o <<e>>

\* line 172
ParseLogLine(body, e) ==
    <<"Unable to parse message (">> \o body \o <<"): ">> \o <<e>>

\* line 176
RecordLogLine(body, e) ==
    <<"Unable to record message (">> \o body \o <<"): ">> \o <<e>>

NoDelivery == [n |-> 0, RoutingKey |-> EmptyStr, Body |-> EmptyStr]

Init ==
    /\ rootDir \in Roots
    /\ decodeRep \in DecodeReps
    /\ messages = <<>>
    /\ closed = FALSE
    /\ published = <<>>
    /\ pc = "unstarted"
    /\ delivery = NoDelivery
    /\ key = EmptyStr
    /\ msg = NilEvent
    /\ err = NilErr
    /\ calls = <<>>
    /\ rows = <<>>
    /\ logs = <<>>
    /\ inspected = {}
    /\ scoped = {}
    /\ failed = {}
    /\ completed = {}
    /\ mainPc = "spawn"
    /\ unacked = {}
    /\ hung = {}

\* Variant of the consumer that acknowledges by hand.
ManualAck == FALSE

\* line 117: the auto-ack flag passed to ch.Consume.
AutoAck == TRUE

\* The broker sends a delivery to the consumer, which puts it on the consumer
\* channel; with auto-ack the broker counts it as acknowledged on sending.
Publish ==
    /\ ~closed
    /\ pc \notin {"panicked", "killed"}
    /\ Len(published) < MaxDeliveries
    /\ Len(messages) < MaxQueue
    /\ \E in \in Deliveries :
         LET d == [n |-> Len(published) + 1, RoutingKey |-> in.RoutingKey,
                   Body |-> in.Body]
         IN  /\ messages' = Append(messages, d)
             /\ published' = Append(published, d)
             /\ unacked' = IF AutoAck THEN unacked ELSE unacked \cup {d.n}
    /\ UNCHANGED <<scoped, failed>>
    /\ UNCHANGED <<rootDir, decodeRep, closed, pc, delivery, key, msg, err,
                   calls, rows, logs, inspected, completed>>
    /\ UNCHANGED <<mainPc, hung>>

\* The AMQP client closes the consumer channel (connection lost).
CloseStream ==
    /\ ~closed
    /\ closed' = TRUE
    /\ UNCHANGED <<scoped, failed>>
    /\ UNCHANGED <<rootDir, decodeRep, messages, published, pc, delivery,
                   key, msg, err, calls, rows, logs, inspected, completed>>
    /\ UNCHANGED <<mainPc, unacked, hung>>

\* Variant of the receive that takes the newest delivery first.
ReceiveLast ==
    /\ pc = "range"
    /\ messages # <<>>
    /\ delivery' = messages[Len(messages)]
    /\ messages' = SubSeq(messages, 1, Len(messages) - 1)
    /\ pc' = "decode"
    /\ UNCHANGED <<rootDir, decodeRep, closed, published, key, msg, err,
                   calls, rows, logs, inspected, scoped, failed, completed>>
    /\ UNCHANGED <<mainPc, unacked, hung>>

\* Variant of the receive that does not wait for the iteration to end.
ReceiveEager ==
    /\ pc \in {"range", "decode", "scope", "record"}
    /\ messages # <<>>
    /\ delivery' = Head(messages)
    /\ messages' = Tail(messages)
    /\ pc' = "decode"
    /\ UNCHANGED <<rootDir, decodeRep, closed, published, key, msg, err,
                   calls, rows, logs, inspected, scoped, failed, completed,
                   mainPc, unacked, hung>>

\* line 168: the range takes the next delivery from the channel.
Receive ==
    /\ pc = "range"
    /\ messages # <<>>
    /\ delivery' = Head(messages)
    /\ messages' = Tail(messages)
    /\ pc' = "decode"
    /\ UNCHANGED <<scoped, failed>>
    /\ UNCHANGED <<rootDir, decodeRep, closed, published, key, msg, err,
                   calls, rows, logs, inspected, completed>>
    /\ UNCHANGED <<mainPc, unacked, hung>>

\* line 168: the range ends once the channel is closed and drained.
RangeEnd ==
    /\ pc = "range"
    /\ messages = <<>>
    /\ closed
    /\ pc' = "returned"
    /\ UNCHANGED <<scoped, failed>>
    /\ UNCHANGED <<rootDir, decodeRep, messages, closed, published, delivery,
                   key, msg, err, calls, rows, logs, inspected, completed>>
    /\ UNCHANGED <<mainPc, unacked, hung>>

\* Variant of the decode step whose msg outlives the iteration: a failed
\* decode leaves the Event of an earlier delivery in place.
DecodeStepKeepsMsg ==
    /\ pc = "decode"
    /\ LET r == Decode(delivery.Body, decodeRep)
       IN  /\ key' = delivery.RoutingKey
           /\ msg' = IF r.err # NilErr THEN msg ELSE r.msg
           /\ err' = r.err
           /\ logs' = IF r.err # NilErr
                      THEN Append(logs, [n |-> delivery.n, kind |-> "parse",
                                         line |-> ParseLogLine(delivery.Body, r.err)])
                      ELSE logs
    /\ pc' = "scope"
    /\ UNCHANGED <<rootDir, decodeRep, messages, closed, published, delivery,
                   calls, rows, inspected, scoped, failed, completed,
                   mainPc, unacked, hung>>

\* lines 169-173: take the routing key, decode, log a decode failure.
DecodeStep ==
    /\ pc = "decode"
    /\ LET r == Decode(delivery.Body, decodeRep)
       IN  /\ key' = delivery.RoutingKey
           /\ msg' = r.msg
           /\ err' = r.err
           /\ logs' = IF r.err # NilErr
                      THEN Append(logs, [n |-> delivery.n, kind |-> "parse",
                                         line |-> ParseLogLine(delivery.Body, r.err)])
                      ELSE logs
    /\ pc' = "scope"
    /\ UNCHANGED <<scoped, failed>>
    /\ UNCHANGED <<rootDir, decodeRep, messages, closed, published, delivery,
                   calls, rows, inspected, completed>>
    /\ UNCHANGED <<mainPc, unacked, hung>>

\* line 174 (and the call of line 175): msg.Path is read whatever err was;
\* reading it through a nil *Message panics and takes the process down.
ScopeStep ==
    /\ pc = "scope"
    /\ inspected' = inspected \cup {delivery.n}
    /\ IF msg.isNil
       THEN /\ pc' = "panicked"
            /\ UNCHANGED <<calls, completed, scoped>>
       ELSE /\ scoped' = scoped \cup
                   {[n |-> delivery.n, path |-> msg.Path, root |-> rootDir,
                     result |-> InScope(msg.Path, rootDir)]}
            /\ IF InScope(msg.Path, rootDir)
               THEN /\ pc' = "record"
                    /\ calls' = Append(calls, [n |-> delivery.n, key |-> key,
                                               msg |-> msg])
                    /\ UNCHANGED completed
               ELSE /\ pc' = "range"
                    /\ completed' = completed \cup {delivery.n}
                    /\ UNCHANGED calls
    /\ UNCHANGED <<rootDir, decodeRep, messages, closed, published, delivery,
                   key, msg, err, rows, logs, failed>>
    /\ UNCHANGED <<mainPc, unacked, hung>>

\* line 175: RecordEvent returns nil after its one durable write.
RecordOk ==
    /\ pc = "record"
    /\ rows' = RecordEventWrite(rows, delivery.n, key, msg)
    /\ completed' = completed \cup {delivery.n}
    /\ pc' = "range"
    /\ UNCHANGED <<rootDir, decodeRep, messages, closed, published, delivery,
                   key, msg, err, calls, logs, inspected, scoped, failed>>
    /\ UNCHANGED <<mainPc, unacked, hung>>

\* Variant of the failure branch that calls RecordEvent again.
RecordFailRetry ==
    /\ pc = "record"
    /\ failed' = failed \cup {delivery.n}
    /\ logs' = Append(logs, [n |-> delivery.n, kind |-> "record",
                             line |-> RecordLogLine(delivery.Body, RecordError)])
    /\ calls' = Append(calls, [n |-> delivery.n, key |-> key, msg |-> msg])
    /\ pc' = "record"
    /\ UNCHANGED <<rootDir, decodeRep, messages, closed, published, delivery,
                   key, msg, err, rows, inspected, scoped, completed>>
    /\ UNCHANGED <<mainPc, unacked, hung>>

\* lines 175-177: RecordEvent returns an error, having written nothing; the
\* error is logged and the delivery dropped.
RecordFail ==
    /\ pc = "record"
    /\ failed' = failed \cup {delivery.n}
    /\ logs' = Append(logs, [n |-> delivery.n, kind |-> "record",
                             line |-> RecordLogLine(delivery.Body, RecordError)])
    /\ completed' = completed \cup {delivery.n}
    /\ pc' = "range"
    /\ UNCHANGED <<rootDir, decodeRep, messages, closed, published, delivery,
                   key, msg, err, calls, rows, inspected, scoped>>
    /\ UNCHANGED <<mainPc, unacked, hung>>

\* lines 188-191: main starts the one goroutine that runs processMessages,
\* then waits on the spinner channel (line 192).
MainSpawn ==
    /\ mainPc = "spawn"
    /\ pc = "unstarted"
    /\ pc' = "range"
    /\ mainPc' = "spinner"
    /\ UNCHANGED <<rootDir, decodeRep, messages, closed, published, delivery,
                   key, msg, err, calls, rows, logs, inspected, scoped, failed,
                   completed, unacked, hung>>

\* Variant of the goroutine's end that signals main through the spinner
\* channel, which lets main pass line 192 and return.
GoroutineEndSignals ==
    /\ pc = "returned"
    /\ pc' = "done"
    /\ mainPc' = "exited"
    /\ UNCHANGED <<rootDir, decodeRep, messages, closed, published, delivery,
                   key, msg, err, calls, rows, logs, inspected, scoped, failed,
                   completed, unacked, hung>>

\* lines 189-191: processMessages has returned and the goroutine ends; it
\* neither sends on nor closes the spinner channel.
GoroutineEnd ==
    /\ pc = "returned"
    /\ pc' = "done"
    /\ UNCHANGED <<rootDir, decodeRep, messages, closed, published, delivery,
                   key, msg, err, calls, rows, logs, inspected, scoped, failed,
                   completed, mainPc, unacked, hung>>

\* Variant of the call that gives up after a deadline and treats the
\* timeout as a record failure.
RecordHangWithDeadline ==
    /\ pc = "record"
    /\ hung' = hung \cup {delivery.n}
    /\ logs' = Append(logs, [n |-> delivery.n, kind |-> "record",
                             line |-> RecordLogLine(delivery.Body, RecordError)])
    /\ completed' = completed \cup {delivery.n}
    /\ pc' = "range"
    /\ UNCHANGED <<rootDir, decodeRep, messages, closed, published, delivery,
                   key, msg, err, calls, rows, inspected, scoped, failed,
                   mainPc, unacked>>

\* line 175: the call carries no deadline or context; a RecordEvent that
\* blocks for ever keeps the goroutine inside the call.
RecordHang ==
    /\ pc = "record"
    /\ hung' = hung \cup {delivery.n}
    /\ pc' = "hung"
    /\ UNCHANGED <<rootDir, decodeRep, messages, closed, published, delivery,
                   key, msg, err, calls, rows, logs, inspected, scoped, failed,
                   completed, mainPc, unacked>>

\* The process is killed from outside (it has no exit of its own).
Kill ==
    /\ pc \notin {"panicked", "killed"}
    /\ pc' = "killed"
    /\ UNCHANGED <<rootDir, decodeRep, messages, closed, published, delivery,
                   key, msg, err, calls, rows, logs, inspected, scoped, failed,
                   completed, mainPc, unacked, hung>>

Next ==
    \/ MainSpawn
    \/ Publish
    \/ CloseStream
    \/ Receive
    \/ RangeEnd
    \/ DecodeStep
    \/ ScopeStep
    \/ RecordOk
    \/ RecordFail
    \/ RecordHang
    \/ GoroutineEnd
    \/ Kill

Spec == Init /\ [][Next]_vars

\* The program when Decode and RecordEvent always return and nobody kills
\* the process; every goroutine that can take a step eventually takes it.
LiveNext ==
    \/ MainSpawn
    \/ Publish
    \/ CloseStream
    \/ Receive
    \/ RangeEnd
    \/ DecodeStep
    \/ ScopeStep
    \/ RecordOk
    \/ RecordFail
    \/ GoroutineEnd

LiveSpec ==
    /\ Init
    /\ [][LiveNext]_vars
    /\ WF_vars(MainSpawn)
    /\ WF_vars(Receive)
    /\ WF_vars(RangeEnd)
    /\ WF_vars(DecodeStep)
    /\ WF_vars(ScopeStep)
    /\ WF_vars(RecordOk \/ RecordFail)
    /\ WF_vars(GoroutineEnd)

TypeOK ==
    /\ rootDir \in Roots
    /\ pc \in {"unstarted", "range", "decode", "scope", "record", "hung",
              "returned", "done", "panicked", "killed"}
    /\ mainPc \in {"spawn", "spinner", "exited"}
    /\ Len(published) <= MaxDeliveries
    /\ Len(messages) <= MaxQueue

-----------------------------------------------------------------------------
(* Properties *)

\* root is a literal leading substring of path
IsPrefix(root, path) ==
    /\ Len(root) <= Len(path)
    /\ \A i \in 1..Len(root) : path[i] = root[i]

\* sub occurs somewhere in line
Carries(line, sub) ==
    \E i \in 0..(Len(line) - Len(sub)) :
        \A j \in 1..Len(sub) : line[i + j] = sub[j]

\* deliveries the loop has taken from the channel
Taken == 1..(Len(published) - Len(messages))

DecodeFails(n) == ~WellFormed(published[n].Body)
DecodedPath(n) == Decode(published[n].Body, decodeRep).msg.Path
OutOfScope(n) == ~DecodeFails(n) /\ ~IsPrefix(rootDir, DecodedPath(n))
InScopeOk(n) == ~DecodeFails(n) /\ IsPrefix(rootDir, DecodedPath(n))

CallsFor(n) == { i \in DOMAIN calls : calls[i].n = n }
RowsFor(n) == { i \in DOMAIN rows : rows[i].n = n }
LogsFor(n) == { i \in DOMAIN logs : logs[i].n = n }

\* C1: a delivery whose payload fails to decode causes no RecordEvent call,
\* and the loop goes on to the next delivery instead of stopping on it,
\* whatever the configured root.
C1_DecodeFailureSkipped ==
    \A n \in Taken :
        DecodeFails(n) =>
            /\ CallsFor(n) = {}
            /\ ~(pc = "panicked" /\ delivery.n = n)

\* C2: when Decode returns an error the loop neither reads the path of the
\* Event returned with it nor passes that Event to RecordEvent.
C2_FailedEventUnused ==
    \A n \in DOMAIN published :
        DecodeFails(n) =>
            /\ n \notin inspected
            /\ \A i \in DOMAIN calls : calls[i].n # n

\* C3 (as stated): every Event handed to RecordEvent has a non-empty path
\* that begins with the configured root, for any configured root.
C3_RecordedPathNonEmptyUnderRoot ==
    \A i \in DOMAIN calls :
        /\ calls[i].msg.Path # EmptyStr
        /\ IsPrefix(rootDir, calls[i].msg.Path)

\* C3 (amended): every Event handed to RecordEvent has a path that begins
\* with the configured root as a string prefix; the path is non-empty
\* whenever the configured root is non-empty.
C3_RecordedPathUnderRoot ==
    \A i \in DOMAIN calls :
        /\ ~calls[i].msg.isNil
        /\ IsPrefix(rootDir, calls[i].msg.Path)
        /\ rootDir # EmptyStr => calls[i].msg.Path # EmptyStr

C3_Witness ==
    /\ rootDir = RootAB
    /\ \E i \in DOMAIN calls : calls[i].msg.Path = <<"/", "a", "/", "b", "c">>
    /\ \E n \in completed : ~InScopeOk(n)

\* C4: the scope test of the loop is true exactly when the path has the root
\* as a literal, case-sensitive leading substring, with no segment awareness,
\* and it yields a boolean for every pair.
C4_ScopeTestIsLiteralPrefix ==
    \A t \in scoped :
        /\ t.result \in BOOLEAN
        /\ t.result <=> IsPrefix(t.root, t.path)

C4_Witness ==
    /\ \E t \in scoped : /\ t.root = RootAB
                         /\ t.path = <<"/", "a", "/", "b", "c">>
                         /\ t.result
    /\ \E t \in scoped : /\ t.root = RootAB
                         /\ t.path \in { <<"/", "a", "/", "x">>,
                                         <<"/", "A", "/", "b", "/", "c">> }
                         /\ ~t.result

\* C5: a successfully decoded delivery whose path does not start with the
\* root causes no RecordEvent call and no log entry, and the loop continues.
C5_OutOfScopeDroppedSilently ==
    \A n \in DOMAIN published :
        OutOfScope(n) =>
            /\ CallsFor(n) = {}
            /\ RowsFor(n) = {}
            /\ LogsFor(n) = {}
            /\ n \in inspected => n \in completed

C5_Witness ==
    \E n \in completed :
        /\ OutOfScope(n)
        /\ DecodedPath(n) # EmptyStr
        /\ (n + 1) \in inspected

\* C6: an in-scope, well-formed delivery whose RecordEvent returns an error
\* gets exactly one log entry (the record failure), exactly one RecordEvent
\* call, no persisted row, and the loop proceeds.
C6_RecordFailureLoggedOnceNoRetry ==
    \A n \in failed :
        InScopeOk(n) =>
            /\ Cardinality(CallsFor(n)) = 1
            /\ Cardinality(LogsFor(n)) = 1
            /\ \A i \in LogsFor(n) : logs[i].kind = "record"
            /\ RowsFor(n) = {}
            /\ n \in completed

C6_Witness ==
    \E n \in failed :
        /\ InScopeOk(n)
        /\ (n + 1) \in completed

\* C7: RecordEvent calls, and persisted rows, follow the order of delivery:
\* of two recorded deliveries the one delivered first is recorded first.
C7_RecordedInDeliveryOrder ==
    /\ \A i, j \in DOMAIN calls : i < j => calls[i].n < calls[j].n
    /\ \A i, j \in DOMAIN rows : i < j => rows[i].n < rows[j].n

C7_Witness ==
    /\ Len(calls) >= 2
    /\ Len(rows) >= 2

\* C8: between iterations, the number of RecordEvent calls equals the number
\* of processed deliveries that decoded successfully and were in scope.
C8_OneCallPerDecodedInScope ==
    pc \in {"range", "returned"} =>
        Len(calls) = Cardinality({ n \in completed : InScopeOk(n) })

\* C9: the loop stops only when the delivery stream is closed; no outcome of
\* a single message ends the loop or the process.
C9_LoopEndsOnlyOnClose ==
    /\ pc # "panicked"
    /\ pc = "returned" => closed /\ messages = <<>>

C11_KindFollowsReadKey ==
    \A n \in completed :
        (InScopeOk(n) /\ n \notin failed) =>
            /\ Cardinality(CallsFor(n)) = 1
            /\ Cardinality(RowsFor(n)) = 1
            /\ \A i \in RowsFor(n) :
                 /\ Encode(rows[i].path) = published[n].Body
                 /\ rows[i].kind = IF published[n].RoutingKey = ReadKey
                                   THEN "Read" ELSE "Generic"

C11_Witness ==
    /\ \E i \in DOMAIN rows :
         /\ rows[i].kind = "Read"
         /\ rows[i].path = <<"/", "a", "/", "b", "/", "c">>
         /\ rootDir = RootAB
    /\ \E i \in DOMAIN rows :
         /\ rows[i].kind = "Generic"
         /\ published[rows[i].n].RoutingKey = EmptyStr

\* C12: at most one delivery is being processed at any time: a delivery is
\* taken only when the one before it has finished, and while RecordEvent
\* runs it runs for the one delivery in hand.
C12_OneDeliveryAtATime ==
    /\ Cardinality(Taken \ completed) <= 1
    /\ pc \in {"decode", "scope", "record", "hung"} =>
           Taken \ completed = {delivery.n}
    /\ pc \in {"unstarted", "range", "returned", "done"} =>
           Taken \ completed = {}
    /\ pc \in {"record", "hung"} =>
           /\ calls # <<>>
           /\ calls[Len(calls)].n = delivery.n
           /\ \A i \in 1..(Len(calls) - 1) : calls[i].n \in completed

C12_Witness ==
    /\ pc = "record"
    /\ messages # <<>>

\* C13: a delivery is acknowledged before RecordEvent is invoked for it and
\* the broker keeps nothing to redeliver; a delivery whose recording failed,
\* or that was in hand when the process died, has no row, and no delivery
\* has more than one row.
C13_AckedBeforeRecordAtMostOnce ==
    /\ \A i \in DOMAIN calls : calls[i].n \notin unacked
    /\ \A n \in DOMAIN published : n \notin unacked
    /\ \A n \in DOMAIN published : Cardinality(RowsFor(n)) <= 1
    /\ \A n \in failed : RowsFor(n) = {}
    /\ pc \in {"killed", "panicked"} =>
           \A n \in Taken \ completed : RowsFor(n) = {}

C13_Witness ==
    /\ pc = "killed"
    /\ failed # {}
    /\ \E n \in Taken \ completed : n \in inspected

\* C14: once a RecordEvent call never returns, its delivery is never
\* finished and no later delivery is ever taken, decoded, filtered or
\* recorded; nothing but the death of the process ends the wait.
C14_HangStallsPipeline ==
    \A n \in hung :
        /\ pc \in {"hung", "killed"}
        /\ n \notin completed
        /\ RowsFor(n) = {}
        /\ LogsFor(n) = { i \in LogsFor(n) : logs[i].kind = "parse" }
        /\ \A m \in DOMAIN published :
             m > n => /\ m \notin Taken
                      /\ m \notin inspected
                      /\ CallsFor(m) = {}

C14_Witness ==
    /\ pc = "hung"
    /\ messages # <<>>

\* C15: when Decode and RecordEvent always return, every delivery put on the
\* stream is eventually processed to the end, and once the stream is closed
\* processMessages eventually returns.
C15_EveryDeliveryProcessed ==
    /\ \A n \in 1..MaxDeliveries :
         [](Len(published) >= n => <>(n \in completed))
    /\ [](closed => <>(pc \in {"returned", "done"}))

\* C16: main never gets past its wait on the spinner channel; after the
\* stream has closed and processMessages has returned, main is still
\* blocked there, the stream stays closed and empty.
C16_MainBlockedOnSpinner ==
    /\ mainPc # "exited"
    /\ pc \in {"returned", "done"} =>
           /\ mainPc = "spinner"
           /\ closed
           /\ messages = <<>>

C16_Witness ==
    /\ pc = "done"
    /\ mainPc = "spinner"
    /\ completed # {}

\* C17: every RecordEvent call gets the routing key and the decoded Event of
\* one and the same delivery, the one in hand; never those of an earlier one.
C17_KeyAndEventOfSameDelivery ==
    \A i \in DOMAIN calls :
        LET d == published[calls[i].n]
        IN  /\ calls[i].key = d.RoutingKey
            /\ calls[i].msg = Decode(d.Body, decodeRep).msg

C17_Witness ==
    \E i \in DOMAIN calls :
        /\ calls[i].n = 2
        /\ DecodeFails(1)
        /\ 1 \in completed
        /\ published[1].RoutingKey # published[2].RoutingKey

====
